---------------------------- MODULE Spec2Model ----------------------------
(* Multi-sweep intermediate-fusion dataset of CoBEVFlow:                   *)
(* IntermediateFusionDatasetMultisweep (index construction, temporal       *)
(* sampling, sample assembly, batch collation).                            *)
EXTENDS Integers, Sequences, FiniteSets, TLC

(***************************************************************************)
(* Bounds of the model.                                                    *)
(***************************************************************************)
MaxScen == 2        \* scenario folders under root_dir
MaxFrames == 3      \* yaml files (timestamps) per agent directory
MaxCavDirs == 2     \* agent directories per scenario folder
MaxTau == 1         \* params['time_delay']
MaxK == 2           \* params['num_sweep_frames']
MaxCavCfg == 2      \* params['train_params']['max_cav']
MaxCoord == 2       \* largest planar coordinate of an agent's first pose
MaxRange == 2       \* params['comm_range']
MaxNum == 2         \* params['postprocess']['max_num']
MaxBatch == 2       \* samples in one batch
MaxAgents == 2      \* retained agents in one sample handed to the collator

VARIABLES
    tau,                \* self.tau
    k,                  \* self.k
    max_cav,            \* self.max_cav
    scenario_database,  \* self.scenario_database
    len_record,         \* self.len_record
    params,             \* the options read from self.params after construction
    world,              \* what the yaml files on disk hold
    call,               \* the last operation called and its argument
    ret,                \* what that operation returned or raised
    used                \* the list indexings done by that operation, in order

vars == <<tau, k, max_cav, scenario_database, len_record, params, world,
          call, ret, used>>

dataset == <<tau, k, max_cav, scenario_database, len_record, params, world>>

(***************************************************************************)
(* Helpers.                                                                *)
(***************************************************************************)
Min(a, b) == IF a < b THEN a ELSE b

Last(s) == s[Len(s)]

\* Python's list[t] for a list of length n: the 0-based position read, or
\* -1 where Python raises IndexError.  A negative t counts from the end.
PyIndex(n, t) ==
    IF t >= n \/ t < 0 - n THEN -1
    ELSE IF t < 0 THEN t + n ELSE t

(***************************************************************************)
(* __init__ : the scenario database and the cumulative-length table.       *)
(* dirs[s] = [ncav |-> agent directories, nframes |-> yaml files in each]. *)
(***************************************************************************)
\* One agent's ordered map: the 'ego' flag is inserted first, then one
\* entry per timestamp, in sorted order.  ts is the 0-based position of the
\* timestamp in the agent's time-ordered frame list.
CavContent(isEgo, nframes) ==
    [ego   |-> isEgo,
     items |-> <<[kind |-> "flag", ts |-> -1]>> \o
               [p \in 1..nframes |-> [kind |-> "frame", ts |-> p - 1]]]

\* The agents kept for a scenario, the second one flagged ego.
ScenarioOfSecondEgo(d, maxcav) ==
    [j \in 1..Min(d.ncav, maxcav) |-> CavContent(j = 2, d.nframes)]

\* Every discovered agent directory kept, whatever max_cav is.
ScenarioOfUncapped(d, maxcav) ==
    [j \in 1..d.ncav |-> CavContent(j = 1, d.nframes)]

\* The agents kept for a scenario: the loop breaks at j > max_cav - 1.
ScenarioOf(d, maxcav) ==
    [j \in 1..Min(d.ncav, maxcav) |-> CavContent(j = 1, d.nframes)]

BuildDatabase(dirs, maxcav) ==
    [s \in 1..Len(dirs) |-> ScenarioOf(dirs[s], maxcav)]

\* num_ego_timestamps of one scenario.
NumEgoTimestamps(nframes, t, kk) == nframes - (t + kk - 1)

RECURSIVE BuildLenRecord(_, _, _)
BuildLenRecord(dirs, t, kk) ==
    IF Len(dirs) = 0 THEN <<>>
    ELSE LET prev == BuildLenRecord(SubSeq(dirs, 1, Len(dirs) - 1), t, kk)
             num  == NumEgoTimestamps(Last(dirs).nframes, t, kk)
         IN IF Len(prev) = 0 THEN <<num>>
            ELSE Append(prev, Last(prev) + num)

DirShapes == [ncav : 1..MaxCavDirs, nframes : 1..MaxFrames]

DirSeqs == UNION {[1..n -> DirShapes] : n \in 1..MaxScen}

NoCall == [op |-> "none", idx |-> 0]
NoRet == [status |-> "none"]

\* The state __init__ leaves for the discovered directories and the options.
Constructed(dirs, t, kk, mc) ==
    /\ tau = t
    /\ k = kk
    /\ max_cav = mc
    /\ scenario_database = BuildDatabase(dirs, mc)
    /\ len_record = BuildLenRecord(dirs, t, kk)
    /\ call = NoCall
    /\ ret = NoRet
    /\ used = <<>>

\* The yaml file of agent cav at frame position ts: its lidar pose (planar
\* part) and the global ids of the objects it lists.  Agent cav starts at
\* origin[cav] and moves vel along x per frame.
LoadYaml(cav, ts) ==
    [lidar_pose |-> <<world.origin[cav][1] + world.vel * ts,
                      world.origin[cav][2]>>,
     vehicles   |-> world.vehicles[cav]]

Coords == (0..MaxCoord) \X (0..MaxCoord)

ObjLists == {<<>>, <<1>>, <<1, 2>>, <<2, 1>>, <<2, 3>>, <<1, 2, 3>>}

CoreMethods == {"SpVoxelPreprocessor", "VoxelPreprocessor"}

\* All agents at one fixed place, no labelled objects.
StillWorld ==
    [origin   |-> [c \in 1..MaxCavDirs |-> <<0, 0>>],
     vel      |-> 0,
     vehicles |-> [c \in 1..MaxCavDirs |-> <<>>]]

DefaultParams ==
    [comm_range |-> MaxRange, max_num |-> MaxNum,
     core_method |-> "SpVoxelPreprocessor", proj_first |-> FALSE]

Init ==
    \E dirs \in DirSeqs, t \in 0..MaxTau, kk \in 0..MaxK, mc \in 1..MaxCavCfg :
        /\ Constructed(dirs, t, kk, mc)
        /\ params = DefaultParams
        /\ world = StillWorld

(***************************************************************************)
(* retrieve_base_data(idx)                                                 *)
(***************************************************************************)
\* The scan of len_record: the first i with idx < len_record[i] (0-based),
\* or -1 when the loop ends without a break.
RECURSIVE ScanFrom(_, _)
ScanFrom(idx, i) ==
    IF i > Len(len_record) THEN -1
    ELSE IF idx < len_record[i] THEN i - 1
    ELSE ScanFrom(idx, i + 1)

\* scenario_index after the scan (it stays 0 when nothing matched).
ScenarioIndex(idx) ==
    IF ScanFrom(idx, 1) = -1 THEN 0 ELSE ScanFrom(idx, 1)

\* The loop variable i after the scan: enumerate leaves it at the matching
\* position, or at the last position when there was no break.
LoopVarAfterScan(idx) ==
    IF ScanFrom(idx, 1) = -1 THEN Len(len_record) - 1 ELSE ScanFrom(idx, 1)

\* "idx + i if scenario_index == 0 else idx + i - len_record[scenario_index - 1]"
BaseIndex(idx, i) ==
    IF ScenarioIndex(idx) = 0 THEN idx + i
    ELSE idx + i - len_record[ScenarioIndex(idx)]

\* timestamp_index of the current frame, for the value i the loop variable
\* holds when the agent's body starts.
CurrIndex(idx, i) == BaseIndex(idx, i) + tau + k - 1

\* temp: the extra shift of the past frames.
Temp(isEgo) == IF isEgo THEN tau ELSE 0

\* timestamp_index of past frame i.
PastIndex(idx, i, isEgo) == BaseIndex(idx, i) + k - 1 - i + Temp(isEgo)

\* list(cav_content.items())[t][0] followed by cav_content[key]['yaml']:
\* IndexError when t is outside the list, TypeError when the key is 'ego'
\* (cav_content['ego'] is a bool), else the frame read.
Lookup(content, t) ==
    LET p == PyIndex(Len(content.items), t)
    IN IF p = -1 THEN [err |-> "IndexError", ts |-> -1]
       ELSE IF content.items[p + 1].kind = "flag"
            THEN [err |-> "TypeError", ts |-> -1]
            ELSE [err |-> "none", ts |-> content.items[p + 1].ts]

\* One indexing of an agent's item list, as recorded in 'used'.
Use(cav, what, i, t, content, lk) ==
    [cav |-> cav, what |-> what, i |-> i, index |-> t,
     nitems |-> Len(content.items), err |-> lk.err]

\* The past_k loop of one agent from position i on: the frames read, the
\* indexings done, and the error that ended it, if any.
RECURSIVE PastLoop(_, _, _, _)
PastLoop(idx, cav, content, i) ==
    IF i >= k THEN [err |-> "none", past |-> <<>>, uses |-> <<>>]
    ELSE LET t  == PastIndex(idx, i, content.ego)
             lk == Lookup(content, t)
             u  == Use(cav, "past", i, t, content, lk)
         IN IF lk.err # "none"
            THEN [err |-> lk.err, past |-> <<>>, uses |-> <<u>>]
            ELSE LET rest == PastLoop(idx, cav, content, i + 1)
                 IN [err  |-> rest.err,
                     past |-> <<[timestamp |-> lk.ts,
                                 params    |-> LoadYaml(cav, lk.ts)]>>
                              \o rest.past,
                     uses |-> <<u>> \o rest.uses]

\* The loop over the agents of the scenario from agent 'cav' on; i is the
\* value the variable i holds when the agent's body starts.
RECURSIVE CavLoop(_, _, _, _)
CavLoop(idx, scen, cav, i) ==
    IF cav > Len(scen) THEN [err |-> "none", data |-> <<>>, uses |-> <<>>]
    ELSE LET content == scen[cav]
             t  == CurrIndex(idx, i)
             lk == Lookup(content, t)
             u  == Use(cav, "curr", i, t, content, lk)
         IN IF lk.err # "none"
            THEN [err |-> lk.err, data |-> <<>>, uses |-> <<u>>]
            ELSE LET pl == PastLoop(idx, cav, content, 0)
                 IN IF pl.err # "none"
                    THEN [err |-> pl.err, data |-> <<>>,
                          uses |-> <<u>> \o pl.uses]
                    ELSE LET rest == CavLoop(idx, scen, cav + 1,
                                             IF k > 0 THEN k - 1 ELSE i)
                             entry == [ego    |-> content.ego,
                                       curr   |-> [timestamp |-> lk.ts,
                                                    params    |-> LoadYaml(cav, lk.ts)],
                                       past_k |-> pl.past]
                         IN [err  |-> rest.err,
                             data |-> IF rest.err = "none"
                                      THEN <<entry>> \o rest.data ELSE <<>>,
                             uses |-> <<u>> \o pl.uses \o rest.uses]

retrieve_base_data(idx) ==
    CavLoop(idx, scenario_database[ScenarioIndex(idx) + 1], 1,
            LoopVarAfterScan(idx))

\* The flat indices a data loader hands in: range(len(dataset)).
ValidIdx(idx) == 0 <= idx /\ idx < Last(len_record)

IdxRange == 0..(MaxScen * (MaxFrames + 1) - 1)

\* The calls are made one after the other: no call is in progress.
Idle == call = NoCall

\* The caller takes the result (or the exception) of the call.
Return ==
    /\ call # NoCall
    /\ call' = NoCall
    /\ ret' = NoRet
    /\ used' = <<>>
    /\ UNCHANGED dataset

\* An agent's map of the index after the keys 'past_k' and 'curr' were
\* assigned in it.
WithCallKeys(content) ==
    IF \E p \in 1..Len(content.items) : content.items[p].kind = "call"
    THEN content
    ELSE [content EXCEPT !.items = @ \o <<[kind |-> "call", ts |-> -1],
                                          [kind |-> "call", ts |-> -1]>>]

\* retrieve_base_data filling the agents' maps of the index themselves
\* (data[cav_id] = cav_content) instead of fresh dicts.
RetrieveBaseDataAliased ==
    /\ Idle
    /\ \E idx \in IdxRange :
        /\ ValidIdx(idx)
        /\ LET r == retrieve_base_data(idx)
               s == ScenarioIndex(idx) + 1
           IN /\ call' = [op |-> "retrieve_base_data", idx |-> idx]
              /\ ret' = IF r.err = "none"
                        THEN [status |-> "ok", data |-> r.data]
                        ELSE [status |-> r.err]
              /\ used' = r.uses
              /\ scenario_database' =
                     [scenario_database EXCEPT ![s] =
                         [c \in 1..Len(scenario_database[s]) |->
                             WithCallKeys(scenario_database[s][c])]]
        /\ UNCHANGED <<tau, k, max_cav, len_record, params, world>>

RetrieveBaseData ==
    /\ Idle
    /\ \E idx \in IdxRange :
        /\ ValidIdx(idx)
        /\ LET r == retrieve_base_data(idx)
           IN /\ call' = [op |-> "retrieve_base_data", idx |-> idx]
              /\ ret' = IF r.err = "none"
                        THEN [status |-> "ok", data |-> r.data]
                        ELSE [status |-> r.err]
              /\ used' = r.uses
        /\ UNCHANGED dataset

(***************************************************************************)
(* __getitem__(idx)                                                        *)
(***************************************************************************)
\* The search for the ego's lidar pose: the first agent flagged ego is read
\* as cav_content['params']['lidar_pose'], but an entry of base_data_dict
\* holds only the keys 'ego', 'past_k' and 'curr', so the read raises
\* KeyError.  With no agent flagged ego the assertions after the loop fail.
EgoSearch(data) ==
    IF \E c \in 1..Len(data) : data[c].ego THEN "KeyError"
    ELSE "AssertionError"

\* __getitem__ from the result r of its call of retrieve_base_data up to the
\* statement that ends it.
getitem(r) ==
    IF r.err # "none" THEN [status |-> r.err]
    ELSE [status |-> EgoSearch(r.data)]

GetItem ==
    /\ Idle
    /\ \E idx \in IdxRange :
        /\ ValidIdx(idx)
        /\ LET r == retrieve_base_data(idx)
           IN /\ call' = [op |-> "__getitem__", idx |-> idx]
              /\ ret' = getitem(r)
              /\ used' = r.uses
        /\ UNCHANGED dataset

(***************************************************************************)
(* EarlyFusionDatasetDAIR.retrieve_base_data(idx)                          *)
(***************************************************************************)
\* The record built for the frame self.data[idx]: agent 0 is the vehicle,
\* flagged ego, agent 1 the road-side unit; both carry 'params' and
\* 'lidar_np'.  When no entry of data_info.json matches the frame id,
\* frame_info stays {} and frame_info["system_error_offset"] raises KeyError.
dair_retrieve_base_data(matched) ==
    IF ~matched THEN [err |-> "KeyError", data |-> <<>>]
    ELSE [err  |-> "none",
          data |-> <<[ego      |-> TRUE,
                      params   |-> [lidar_pose |-> world.origin[1],
                                    vehicles   |-> world.vehicles[1]],
                      lidar_np |-> "vehicle"],
                     [ego      |-> FALSE,
                      params   |-> [lidar_pose |-> world.origin[2],
                                    vehicles   |-> world.vehicles[1]],
                      lidar_np |-> "infrastructure"]>>]

DairRetrieveBaseData ==
    /\ Idle
    /\ \E idx \in 0..1, matched \in BOOLEAN :
        LET r == dair_retrieve_base_data(matched)
        IN /\ call' = [op |-> "dair_retrieve_base_data", idx |-> idx]
           /\ ret' = IF r.err = "none"
                     THEN [status |-> "ok", data |-> r.data]
                     ELSE [status |-> r.err]
           /\ used' = <<>>
           /\ UNCHANGED dataset

(***************************************************************************)
(* get_item_single_car(selected_cav_base, ego_pose, idx)                   *)
(***************************************************************************)
\* The body up to the statement that ends it.  With k >= 1 the first
\* statement of the loop reads selected_cav_base['past_k']['params'], but
\* past_k is keyed by 0..k-1: KeyError.  With k = 0 the loop body never
\* runs, the labels are generated from selected_cav_base['curr'], and the
\* result is built from projected_lidar and processed_lidar, which were
\* never assigned: UnboundLocalError.
get_item_single_car(selected_cav_base, ego_pose) ==
    IF k >= 1 THEN [status |-> "KeyError"]
    ELSE [status |-> "UnboundLocalError"]

GetItemSingleCar ==
    /\ Idle
    /\ \E idx \in IdxRange, cav \in 1..MaxCavDirs :
        /\ ValidIdx(idx)
        /\ retrieve_base_data(idx).err = "none"
        /\ cav <= Len(retrieve_base_data(idx).data)
        /\ LET data == retrieve_base_data(idx).data
           IN /\ call' = [op |-> "get_item_single_car", idx |-> idx,
                          cav |-> cav]
              /\ ret' = get_item_single_car(data[cav],
                                            data[1].curr.params.lidar_pose)
              /\ used' = <<>>
        /\ UNCHANGED dataset

Next ==
    \/ RetrieveBaseData
    \/ GetItem
    \/ GetItemSingleCar
    \/ DairRetrieveBaseData
    \/ Return

Spec == Init /\ [][Next]_vars

\* Sample assembly over a fixed index and varying yaml contents and options.
SampleDirs == <<[ncav |-> 2, nframes |-> 3]>>

InitSample ==
    \E t \in 0..MaxTau, kk \in 1..MaxK, o2 \in Coords, v \in 0..1,
       r \in 0..MaxRange, mn \in 1..MaxNum, ob1 \in ObjLists, ob2 \in ObjLists :
        /\ Constructed(SampleDirs, t, kk, 2)
        /\ params = [comm_range |-> r, max_num |-> mn,
                     core_method |-> "SpVoxelPreprocessor",
                     proj_first |-> FALSE]
        /\ world = [origin   |-> <<(<<0, 0>>), o2>>,
                    vel      |-> v,
                    vehicles |-> <<ob1, ob2>>]

NextSample == GetItem \/ Return

SpecSample == InitSample /\ [][NextSample]_vars

(***************************************************************************)
(* get_pairwise_transformation(base_data_dict, max_cav)                    *)
(***************************************************************************)
\* A transform between two agents whose poses differ by a planar
\* translation only: the translation itself.  The identity is no translation.
Identity == <<0, 0>>

\* np.linalg.solve(Tj, Ti) = Tj^-1 * Ti for the world transforms of two
\* poses: it maps the frame of the pose pi into the frame of the pose pj.
Tji(pj, pi) == <<pi[1] - pj[1], pi[2] - pj[2]>>

\* np.tile(np.eye(4), (L, L, 1, 1)), indexed from 0.
IdentityTile(L) == [ij \in (0..(L - 1)) \X (0..(L - 1)) |-> Identity]

\* base_data_dict as an ordered dict: the entries of data under their agent
\* ids, without the agents popped as too far.
Popped(data, too_far) ==
    SelectSeq([c \in 1..Len(data) |-> [cav |-> c, content |-> data[c]]],
              LAMBDA e : e.cav \notin too_far)

\* The position of the first entry that has no 'params' key, 0 when all do.
FirstWithoutParams(base) ==
    IF \A c \in 1..Len(base) : "params" \in DOMAIN base[c].content THEN 0
    ELSE CHOOSE c \in 1..Len(base) :
            /\ "params" \notin DOMAIN base[c].content
            /\ \A b \in 1..(c - 1) : "params" \in DOMAIN base[b].content

\* The branch taken when the clouds were not projected first: every entry's
\* cav_content['params']['lidar_pose'] is read in order (KeyError on an
\* entry without 'params'), then entry [i, j] is written for i # j
\* (IndexError outside the L x L tensor).
PairwiseFromPoses(base, L) ==
    LET n == Len(base)
        m == FirstWithoutParams(base)
    IN IF m # 0
       THEN [status |-> "KeyError", read |-> [c \in 1..m |-> base[c].cav]]
       ELSE IF n > L /\ n >= 2
       THEN [status |-> "IndexError", read |-> [c \in 1..n |-> base[c].cav]]
       ELSE [status |-> "ok",
             read   |-> [c \in 1..n |-> base[c].cav],
             t      |-> [ij \in (0..(L - 1)) \X (0..(L - 1)) |->
                            IF ij[1] # ij[2] /\ ij[1] < n /\ ij[2] < n
                            THEN Tji(base[ij[2] + 1].content.params.lidar_pose,
                                     base[ij[1] + 1].content.params.lidar_pose)
                            ELSE Identity]]

\* The pose-reading branch taken whatever proj_first is.
get_pairwise_transformation_always_poses(base, L) == PairwiseFromPoses(base, L)

get_pairwise_transformation(base, L) ==
    IF params.proj_first
    THEN [status |-> "ok", read |-> <<>>, t |-> IdentityTile(L)]
    ELSE PairwiseFromPoses(base, L)

GetPairwiseTransformation ==
    /\ Idle
    /\ \E idx \in IdxRange, L \in 1..MaxCavCfg, too_far \in SUBSET (1..MaxCavDirs) :
        /\ ValidIdx(idx)
        /\ retrieve_base_data(idx).err = "none"
        /\ LET base == Popped(retrieve_base_data(idx).data, too_far)
           IN /\ call' = [op |-> "get_pairwise_transformation", idx |-> idx,
                          base |-> base, max_cav |-> L]
              /\ ret' = get_pairwise_transformation(base, L)
              /\ used' = <<>>
        /\ UNCHANGED dataset

\* The pairwise tensor over a fixed index and varying poses and options.
InitPairwise ==
    \E t \in 0..MaxTau, kk \in 1..MaxK, o2 \in Coords, v \in 0..1,
       pf \in BOOLEAN, mc \in 1..MaxCavCfg, n \in 1..MaxCavDirs :
        /\ Constructed(<<[ncav |-> n, nframes |-> 3]>>, t, kk, mc)
        /\ params = [comm_range |-> MaxRange, max_num |-> MaxNum,
                     core_method |-> "SpVoxelPreprocessor",
                     proj_first |-> pf]
        /\ world = [origin   |-> [c \in 1..MaxCavDirs |->
                                     IF c = 1 THEN <<0, 0>> ELSE o2],
                    vel      |-> v,
                    vehicles |-> [c \in 1..MaxCavDirs |-> <<>>]]

NextPairwise == GetPairwiseTransformation \/ GetItem \/ Return

SpecPairwise == InitPairwise /\ [][NextPairwise]_vars

(***************************************************************************)
(* merge_features_to_dict, collate_batch_train, collate_batch_test         *)
(***************************************************************************)
\* A feature value is a list (isList, with its elements) or a single array.
\* merge_features_to_dict, for one feature name: a list is concatenated to
\* the merged list, anything else is appended to it.
RECURSIVE merge_features_to_dict(_)
merge_features_to_dict(feats) ==
    IF Len(feats) = 0 THEN <<>>
    ELSE LET f == Last(feats)
             before == merge_features_to_dict(SubSeq(feats, 1, Len(feats) - 1))
         IN IF f.isList THEN before \o f.val ELSE Append(before, f.val)

RECURSIVE Sum(_)
Sum(seq) == IF Len(seq) = 0 THEN 0 ELSE Last(seq) + Sum(SubSeq(seq, 1, Len(seq) - 1))

RECURSIVE Concat(_)
Concat(seqs) ==
    IF Len(seqs) = 0 THEN <<>>
    ELSE Concat(SubSeq(seqs, 1, Len(seqs) - 1)) \o Last(seqs)

SetMax(S) == CHOOSE m \in S : \A x \in S : x <= m

\* The fields of batch[i]['ego'] the collator reads, for a sample holding the
\* listed retained agents: one lidar_poses row, one feature array and one id
\* per agent.  An agent's feature array is its voxel table, voxels telling
\* whether the table has any row.
SampleOf(idx, agents) ==
    [cav_num         |-> Len(agents),
     lidar_poses     |-> [a \in 1..Len(agents) |-> agents[a].id],
     processed_lidar |-> [isList |-> TRUE,
                          val    |-> [a \in 1..Len(agents) |->
                                          [voxels |-> agents[a].voxels]]],
     object_ids      |-> <<>>,
     sample_idx      |-> idx,
     cav_id_list     |-> [a \in 1..Len(agents) |-> agents[a].id]]

AgentLists ==
    UNION {{[a \in 1..n |-> [id |-> a, voxels |-> f[a]]] : f \in [1..n -> BOOLEAN]} :
           n \in 1..MaxAgents}

Samples == {SampleOf(idx, ag) : idx \in 0..1, ag \in AgentLists}

Batches == UNION {[1..n -> Samples] : n \in 0..MaxBatch}

\* pre_processor.collate_batch: the rows of the i-th merged feature table
\* get batch index i; the values of the batch-index column of the result.
VoxelBatchIndex(entries) ==
    {i - 1 : i \in {j \in 1..Len(entries) : entries[j].voxels}}

\* The first sample's agent count recorded for every sample.
RecordLenOfFirst(b) == [i \in 1..Len(b) |-> b[1].cav_num]

\* record_len: one agent count appended per sample, in batch order.
RecordLen(b) == [i \in 1..Len(b) |-> b[i].cav_num]

\* The consistency check of the last statement before the return.
RecordLenMismatch(core_method, column, record_len) ==
    /\ core_method = "SpVoxelPreprocessor"
    /\ SetMax(column) + 1 # Sum(record_len)

collate_batch_train(b) ==
    LET record_len == RecordLen(b)
        merged     == merge_features_to_dict(
                          [i \in 1..Len(b) |-> b[i].processed_lidar])
        column     == VoxelBatchIndex(merged)
        lidar_pose == Concat([i \in 1..Len(b) |-> b[i].lidar_poses])
    IN IF Len(b) = 0
       THEN [status |-> "ValueError"]   \* np.concatenate of an empty list
       ELSE IF params.core_method = "SpVoxelPreprocessor" /\ column = {}
       THEN [status |-> "RuntimeError"] \* max() of an empty tensor
       ELSE IF RecordLenMismatch(params.core_method, column, record_len)
       THEN [status |-> "None"]
       ELSE [status |-> "ok",
             out |-> [record_len      |-> record_len,
                      lidar_pose      |-> lidar_pose,
                      processed_lidar |-> [entries |-> merged,
                                           voxel_batch_index |-> column],
                      object_ids      |-> b[1].object_ids]]

collate_batch_test(b) ==
    IF Len(b) > 1 THEN [status |-> "AssertionError"]
    ELSE LET output_dict == collate_batch_train(b)
         IN IF output_dict.status # "ok" THEN output_dict
            ELSE [status |-> "ok",
                  out |-> [record_len      |-> output_dict.out.record_len,
                           lidar_pose      |-> output_dict.out.lidar_pose,
                           processed_lidar |-> output_dict.out.processed_lidar,
                           object_ids      |-> output_dict.out.object_ids,
                           transformation_matrix |-> "identity",
                           sample_idx      |-> b[1].sample_idx,
                           cav_id_list     |-> b[1].cav_id_list]]

CollateBatchTrain ==
    /\ Idle
    /\ \E b \in Batches :
        /\ call' = [op |-> "collate_batch_train", batch |-> b]
        /\ ret' = collate_batch_train(b)
        /\ used' = <<>>
        /\ UNCHANGED dataset

CollateBatchTest ==
    /\ Idle
    /\ \E b \in Batches :
        /\ call' = [op |-> "collate_batch_test", batch |-> b]
        /\ ret' = collate_batch_test(b)
        /\ used' = <<>>
        /\ UNCHANGED dataset

CollateDirs == <<[ncav |-> 2, nframes |-> 3]>>

InitCollate ==
    \E cm \in CoreMethods :
        /\ Constructed(CollateDirs, 0, 1, 2)
        /\ params = [comm_range |-> MaxRange, max_num |-> MaxNum,
                     core_method |-> cm, proj_first |-> FALSE]
        /\ world = StillWorld

NextCollate == CollateBatchTrain \/ CollateBatchTest \/ Return

SpecCollate == InitCollate /\ [][NextCollate]_vars

(***************************************************************************)
(* Every operation of the dataset, called in any order on one index.       *)
(***************************************************************************)
CallsDirs == <<[ncav |-> 2, nframes |-> 3], [ncav |-> 1, nframes |-> 3]>>

InitCalls ==
    \E t \in 0..MaxTau, kk \in 0..MaxK, cm \in CoreMethods :
        /\ Constructed(CallsDirs, t, kk, 2)
        /\ params = [comm_range |-> MaxRange, max_num |-> MaxNum,
                     core_method |-> cm, proj_first |-> FALSE]
        /\ world = StillWorld

NextCalls ==
    \/ RetrieveBaseData
    \/ GetItem
    \/ GetPairwiseTransformation
    \/ CollateBatchTrain
    \/ CollateBatchTest
    \/ Return

SpecCalls == InitCalls /\ [][NextCalls]_vars

(***************************************************************************)
(* Temporal sampling: what retrieve_base_data reads.                       *)
(***************************************************************************)
Retrieved == call.op = "retrieve_base_data"

RetrievedOk == Retrieved /\ ret.status = "ok"

\* The intra-scenario offset of a valid flat index: idx minus the cumulative
\* length of the scenarios before the first one whose cumulative length
\* exceeds idx.
Offset(idx) ==
    IF ScenarioIndex(idx) = 0 THEN idx
    ELSE idx - len_record[ScenarioIndex(idx)]

\* C1: for a valid flat index, every index retrieve_base_data uses to pick a
\* frame of an agent (current frame or past frame) denotes a real timestamp
\* entry of the agent's ordered map: not negative, not past the last entry,
\* and not the 'ego' flag entry at position 0.
C1_IndexDenotesFrame ==
    Retrieved =>
        \A n \in 1..Len(used) :
            /\ used[n].index >= 0
            /\ used[n].index < used[n].nitems
            /\ used[n].index # 0

\* C2: the frame loaded as the ego's current frame is the frame at 0-based
\* position offset + tau + k - 1 of the ego's frame list, in every scenario.
C2_EgoCurrPosition ==
    RetrievedOk =>
        ret.data[1].curr.timestamp = Offset(call.idx) + tau + k - 1

\* C3: the frame loaded as the ego's past_k[i] is the frame at position
\* offset + (k - 1 - i), so the k past frames are distinct and consecutive.
C3_EgoPastPositions ==
    RetrievedOk =>
        \A i \in 0..(k - 1) :
            ret.data[1].past_k[i + 1].timestamp = Offset(call.idx) + (k - 1 - i)

\* C4: the frame loaded as a non-ego agent's past_k[i] is the frame at
\* position offset + (k - 1 - i) + tau of that agent's frame list.
C4_NonEgoPastPositions ==
    RetrievedOk =>
        \A c \in 2..Len(ret.data) : \A i \in 0..(k - 1) :
            ret.data[c].past_k[i + 1].timestamp =
                Offset(call.idx) + (k - 1 - i) + tau

\* C5: with k >= 1 the ego's most recent past frame is its current frame
\* (zero delay) and every other agent's most recent past frame is exactly
\* tau positions before the ego's current frame.
C5_EgoFreshOthersStale ==
    (RetrievedOk /\ k >= 1) =>
        /\ ret.data[1].past_k[1].timestamp = ret.data[1].curr.timestamp
        /\ \A c \in 2..Len(ret.data) :
               ret.data[c].past_k[1].timestamp =
                   ret.data[1].curr.timestamp - tau

(***************************************************************************)
(* Sample assembly: what __getitem__ returns.                              *)
(***************************************************************************)
\* __getitem__ was called with an index whose frames were all resolved.
FramesResolved ==
    call.op = "__getitem__" /\ retrieve_base_data(call.idx).err = "none"

BaseData == retrieve_base_data(call.idx).data

\* Squared planar distance between the agent's most recent past pose and the
\* ego's pose.
Dist2(c) ==
    LET p == BaseData[c].past_k[1].params.lidar_pose
        e == BaseData[1].curr.params.lidar_pose
    IN (p[1] - e[1]) * (p[1] - e[1]) + (p[2] - e[2]) * (p[2] - e[2])

WithinRange(c) == Dist2(c) <= params.comm_range * params.comm_range

InSeq(x, seq) == \E n \in 1..Len(seq) : seq[n] = x

\* The global ids reported by the retained agents, and the first retained
\* agent (in cav_id_list order) reporting a given id.
Reports(c, id) == InSeq(id, BaseData[c].curr.params.vehicles)

UniqueIds(cavs) ==
    {id \in 1..3 : \E n \in 1..Len(cavs) : Reports(cavs[n], id)}

FirstReporter(cavs, id) ==
    cavs[CHOOSE n \in 1..Len(cavs) :
            /\ Reports(cavs[n], id)
            /\ \A m \in 1..(n - 1) : ~Reports(cavs[m], id)]

\* C6: the sample __getitem__ builds lists an agent in cav_id_list exactly
\* when its planar distance to the ego is at most comm_range, and holds one
\* feature entry and one lidar_poses row per listed agent and none for the
\* others.
C6_OnlyAgentsInRange ==
    FramesResolved =>
        /\ ret.status = "ok"
        /\ \A c \in 1..Len(BaseData) :
               InSeq(c, ret.sample.cav_id_list) <=> WithinRange(c)
        /\ ret.sample.cav_num = Len(ret.sample.cav_id_list)
        /\ Len(ret.sample.lidar_poses) = Len(ret.sample.cav_id_list)

\* C7: the sample holds exactly one box per unique global id reported by
\* the retained agents, the box of the first retained agent reporting the
\* id, and object_ids names the ids of the kept boxes row for row.
C7_OneBoxPerUniqueId ==
    FramesResolved =>
        /\ ret.status = "ok"
        /\ Len(ret.sample.object_ids) =
               Cardinality(UniqueIds(ret.sample.cav_id_list))
        /\ {ret.sample.object_ids[r] : r \in 1..Len(ret.sample.object_ids)} =
               UniqueIds(ret.sample.cav_id_list)
        /\ \A r \in 1..Len(ret.sample.object_ids) :
               ret.sample.object_stack[r] =
                   [id |-> ret.sample.object_ids[r],
                    by |-> FirstReporter(ret.sample.cav_id_list,
                                         ret.sample.object_ids[r])]

\* C8: for any number n of unique objects, n > max_num included,
\* __getitem__ returns without raising a box array of max_num rows whose
\* mask has min(n, max_num) leading ones and zeros after.
C8_PadsOrDropsToMaxNum ==
    FramesResolved =>
        /\ ret.status = "ok"
        /\ Len(ret.sample.object_bbx_mask) = params.max_num
        /\ \A j \in 1..params.max_num :
               ret.sample.object_bbx_mask[j] =
                   IF j <= Min(Cardinality(UniqueIds(ret.sample.cav_id_list)),
                               params.max_num)
                   THEN 1 ELSE 0

(***************************************************************************)
(* Batch collation.                                                        *)
(***************************************************************************)
TrainReturnedBatch == call.op = "collate_batch_train" /\ ret.status = "ok"

\* C9: in the batch collate_batch_train returns, record_len[i] is the
\* number of retained agents of sample i, in batch order, and the sum of
\* record_len is the number of feature entries and of lidar_pose rows
\* concatenated into the batch.
C9_RecordLenCountsAgents ==
    TrainReturnedBatch =>
        /\ Len(ret.out.record_len) = Len(call.batch)
        /\ \A i \in 1..Len(call.batch) :
               ret.out.record_len[i] = Len(call.batch[i].cav_id_list)
        /\ Sum(ret.out.record_len) = Len(ret.out.processed_lidar.entries)
        /\ Sum(ret.out.record_len) = Len(ret.out.lidar_pose)

\* A batch of two samples with different agent counts was collated.
C9_Witness ==
    /\ TrainReturnedBatch
    /\ Len(call.batch) = 2
    /\ call.batch[1].cav_num # call.batch[2].cav_num
    /\ Sum(ret.out.record_len) = 3

\* The distinct groups of the batch-index column, and the agents counted.
GroupsOf(b) ==
    Cardinality(VoxelBatchIndex(merge_features_to_dict(
        [i \in 1..Len(b) |-> b[i].processed_lidar])))

AgentsOf(b) == Sum([i \in 1..Len(b) |-> Len(b[i].cav_id_list)])

\* C10: whatever the preprocessor, collate_batch_train returns None, without
\* raising, exactly when the batch-index column does not span sum(record_len)
\* distinct groups, and a batch otherwise; collate_batch_test does the same
\* on a one-sample batch.
C10_MismatchGivesNone ==
    ((\/ call.op = "collate_batch_train" /\ Len(call.batch) >= 1
      \/ call.op = "collate_batch_test" /\ Len(call.batch) = 1)) =>
        IF GroupsOf(call.batch) # AgentsOf(call.batch)
        THEN ret.status = "None"
        ELSE ret.status = "ok"

\* C11: collate_batch_test rejects every batch that does not hold exactly
\* one sample (the empty batch, two or more samples) by its size check,
\* before collate_batch_train is entered; a one-sample batch that collates
\* validly comes back with the identity transformation matrix, the sample's
\* flat index and its retained-agent id list.
C11_OnlyOneSampleAccepted ==
    call.op = "collate_batch_test" =>
        /\ Len(call.batch) # 1 => ret.status = "AssertionError"
        /\ (Len(call.batch) = 1 /\ ret.status = "ok") =>
               /\ ret.out.transformation_matrix = "identity"
               /\ ret.out.sample_idx = call.batch[1].sample_idx
               /\ ret.out.cav_id_list = call.batch[1].cav_id_list

(***************************************************************************)
(* Pairwise transforms.                                                    *)
(***************************************************************************)
PairwiseCalled == call.op = "get_pairwise_transformation"

\* C12: with proj_first true, get_pairwise_transformation returns an
\* L x L tensor whose every entry is the identity, for every set of agents
\* and every pose, and reads no pose.
C12_ProjFirstAllIdentity ==
    (PairwiseCalled /\ params.proj_first) =>
        /\ ret.status = "ok"
        /\ ret.read = <<>>
        /\ DOMAIN ret.t = (0..(call.max_cav - 1)) \X (0..(call.max_cav - 1))
        /\ \A ij \in DOMAIN ret.t : ret.t[ij] = Identity

\* proj_first is true and the call was made for two agents at different
\* places.
C12_Witness ==
    /\ PairwiseCalled
    /\ params.proj_first
    /\ ret.status = "ok"
    /\ Len(call.base) = 2
    /\ call.max_cav = 2
    /\ call.base[1].content.curr.params.lidar_pose #
           call.base[2].content.curr.params.lidar_pose

\* C13: with proj_first false, the tensor in the sample __getitem__ returns
\* has, for the N retained agents in cav_id_list order, entry [i, j] mapping
\* the frame of the i-th retained agent into the frame of the j-th for
\* i # j, and the identity on the diagonal and in every entry with i >= N or
\* j >= N.
C13_PairwiseOverRetained ==
    (FramesResolved /\ ~params.proj_first) =>
        /\ ret.status = "ok"
        /\ DOMAIN ret.sample.pairwise_t_matrix =
               (0..(max_cav - 1)) \X (0..(max_cav - 1))
        /\ LET ids == ret.sample.cav_id_list
               N   == Len(ids)
               pose(n) == BaseData[ids[n]].curr.params.lidar_pose
           IN \A ij \in DOMAIN ret.sample.pairwise_t_matrix :
                  ret.sample.pairwise_t_matrix[ij] =
                      IF ij[1] # ij[2] /\ ij[1] < N /\ ij[2] < N
                      THEN Tji(pose(ij[2] + 1), pose(ij[1] + 1))
                      ELSE Identity

(***************************************************************************)
(* The index after construction.                                           *)
(***************************************************************************)
\* The number of timestamps of the ego of scenario s (1-based).
EgoFrames(s) == Len(scenario_database[s][1].items) - 1

\* The samples scenario s contributes to len_record.
Contribution(s) ==
    IF s = 1 THEN len_record[1] ELSE len_record[s] - len_record[s - 1]

\* C14: len_record is monotonically non-decreasing: every scenario
\* contributes len(frames) - (tau + k - 1) samples when that is >= 0 and no
\* sample otherwise, never a negative count.
C14_LenRecordMonotone ==
    \A s \in 1..Len(len_record) :
        /\ Contribution(s) >= 0
        /\ Contribution(s) =
               IF EgoFrames(s) - (tau + k - 1) >= 0
               THEN EgoFrames(s) - (tau + k - 1) ELSE 0

\* C15: whenever an index retrieve_base_data computes to pick a frame is
\* negative or lies past the end of the agent's list, the read fails with an
\* error: no frame is returned for it (none by wrapping a negative index
\* around to the end of the list).
C15_OutOfRangeFails ==
    Retrieved =>
        \A n \in 1..Len(used) :
            (used[n].index < 0 \/ used[n].index >= used[n].nitems) =>
                /\ used[n].err # "none"
                /\ ret.status # "ok"

(***************************************************************************)
(* The ego flag.                                                           *)
(***************************************************************************)
\* Of the listed agents exactly one is flagged ego, and it is the first.
EgoIsFirstOnly(agents) ==
    /\ Len(agents) >= 1
    /\ agents[1].ego
    /\ \A c \in 2..Len(agents) : ~agents[c].ego

CavBase == retrieve_base_data(call.idx).data[call.cav]

\* C18: get_item_single_car hands the preprocessor, for each of the agent's
\* k past frames, that frame's own cloud after shuffling, self-reflection
\* masking, the transform into the ego frame by that frame's own pose and
\* the range crop, in this order; the boxes come from the current-frame
\* record only.
C18_PastCloudsInEgoFrame ==
    (call.op = "get_item_single_car" /\ k >= 1) =>
        /\ ret.status = "ok"
        /\ Len(ret.out.processed_features) = k
        /\ \A i \in 1..k :
               ret.out.processed_features[i] =
                   [cloud |-> CavBase.past_k[i].timestamp,
                    pose  |-> CavBase.past_k[i].params.lidar_pose,
                    steps |-> <<"shuffle", "mask", "project", "crop">>]
        /\ ret.out.labels_of = CavBase.curr.timestamp

\* C19: in the record retrieve_base_data returns, every agent's current
\* frame is taken at the same position of its frame list as the ego's: the
\* position does not depend on the agent or on the agents loaded before it.
C19_CurrSamePositionForAll ==
    RetrievedOk =>
        \A c \in 2..Len(ret.data) :
            ret.data[c].curr.timestamp = ret.data[1].curr.timestamp

\* The poses the ego's record holds.
EgoPoses ==
    {BaseData[1].curr.params.lidar_pose} \cup
    {BaseData[1].past_k[i].params.lidar_pose : i \in 1..Len(BaseData[1].past_k)}

\* C20: with k >= 1 and comm_range >= 0, whatever the poses, the sample
\* __getitem__ builds keeps the ego: it is the first element of cav_id_list,
\* cav_num >= 1 and the first row of lidar_poses is the ego's pose.
C20_EgoNeverFilteredOut ==
    (FramesResolved /\ k >= 1 /\ params.comm_range >= 0) =>
        /\ ret.status = "ok"
        /\ ret.sample.cav_num >= 1
        /\ Len(ret.sample.cav_id_list) >= 1
        /\ ret.sample.cav_id_list[1] = 1
        /\ ret.sample.lidar_poses[1] \in EgoPoses

(***************************************************************************)
(* The cap on the agents of a scenario.                                    *)
(***************************************************************************)
\* The entries get_pairwise_transformation writes for n agents: [i, j] for
\* i # j below n.
Written(n) == {ij \in (0..(n - 1)) \X (0..(n - 1)) : ij[1] # ij[2]}

\* C21: no scenario of the index holds more than max_cav agents, whatever
\* number of agent directories was discovered; so the record a sample is
\* built from holds at most max_cav agents, a sample's cav_num is at most
\* max_cav, and every entry get_pairwise_transformation writes, called with
\* self.max_cav as __getitem__ calls it, lies inside the max_cav x max_cav
\* tensor.
C21_AtMostMaxCavAgents ==
    /\ \A s \in 1..Len(scenario_database) :
           Len(scenario_database[s]) <= max_cav
    /\ FramesResolved => Len(BaseData) <= max_cav
    /\ (call.op = "__getitem__" /\ ret.status = "ok")
           => ret.sample.cav_num <= max_cav
    /\ (PairwiseCalled /\ call.max_cav = max_cav) =>
           /\ Len(call.base) <= max_cav
           /\ ret.status # "IndexError"
           /\ Written(Len(call.base)) \subseteq
                  (0..(max_cav - 1)) \X (0..(max_cav - 1))

\* With max_cav = 1 the scenario holds one agent, and
\* get_pairwise_transformation was called with max_cav for that agent.
C21_Witness ==
    /\ PairwiseCalled
    /\ max_cav = 1
    /\ call.max_cav = 1
    /\ Len(call.base) = 1
    /\ Len(scenario_database[1]) = 1

=============================================================================
